---- MODULE Spec2Model ----
(***************************************************************************)
(* CondorJobWrapper (anamod/utils.py): construction of jobs, submission,   *)
(* the monitor loop over the jobs' event logs, removal of jobs on a fatal  *)
(* event, and cleanup of a job's artifact files.                           *)
(*                                                                         *)
(* The specifications share the variables:                                 *)
(*   SpecBuild    constructions in one process, and run() on their jobs    *)
(*   SpecDescriptor  constructions with every combination of keyword       *)
(*                arguments                                                *)
(*   Spec         a batch of constructed jobs: run(), the scheduler's      *)
(*                events, monitor()  (FairSpec: the same, with the         *)
(*                monitor's own steps scheduled fairly)                    *)
(*   SpecCleanup  cleanup() called by hand on one job                      *)
(***************************************************************************)
EXTENDS Integers, Sequences, FiniteSets, TLC

\* ---------------------------------------------------------------- bounds
\* jobs in a monitored batch
MaxJobs == 2
\* events the scheduler appends to the logs of a batch after submission
MaxEvents == 2
\* constructions in one process
MaxIdx == 3
\* constructions in one process when the keyword arguments vary
MaxDescribed == 2

\* ------------------------------------------------------ program constants
\* self.cluster_id = -1  # set by running job
Sentinel == -1
\* "periodic_release": "(NumJobStarts < 5) && (... > 600)"
MaxJobStarts == 5
ReleaseAfter == 600
\* time.sleep(30) at the end of a round of the while loop
BackoffInterval == 30
\* time.sleep(30) for the shared filesystem
FsInterval == 30

VARIABLES
    idx,                  \* CondorJobWrapper.idx, the class counter
    names,                \* history: every name assigned, in construction order
    jobs,                 \* the constructed jobs, in construction order
    fsys,                 \* the filesystem: path -> "absent" | "present" | "locked"
    log,                  \* per job: the events in its log file, in append order
    next_cluster,         \* the scheduler's next cluster id
    appended,             \* number of events the scheduler appended after submission
    pc,                   \* where the caller / monitor is
    mon_kwargs,           \* the **kwargs monitor was called with
    cursor,               \* per job: events consumed through events[idx]
    job_finished,         \* monitor's job_finished list
    num_unfinished_jobs,  \* monitor's num_unfinished_jobs
    mi,                   \* monitor's loop variable idx (1-based), 0 outside the loop
    err,                  \* the exception that left monitor, or NoError
    removals,             \* the schedd.act(Remove, ...) calls issued, in order
    backed_off,           \* history: a sleep at the end of a round is over since a job
                          \* was last marked finished (since monitor was called, if
                          \* none was)
    fs_wait,              \* history: time slept at line 178
    transitioned,         \* history: a job was marked finished in the current round
    cleanups,             \* history: per job, the job.cleanup() calls monitor made
    calls                 \* history: the latest consecutive cleanup() calls on job 1

vars == <<idx, names, jobs, fsys, log, next_cluster, appended, pc, mon_kwargs,
          cursor, job_finished, num_unfinished_jobs, mi, err, removals,
          backed_off, fs_wait, transitioned, cleanups, calls>>

\* what monitor leaves behind of its waits and cleanup calls
histvars == <<backed_off, fs_wait, transitioned, cleanups>>

\* the locals of monitor
looplocals == <<mon_kwargs, cursor, job_finished, num_unfinished_jobs, mi, removals>>

monvars == <<pc, looplocals, err, histvars>>

\* ------------------------------------------------------------ names, paths
\* f"job_{CondorJobWrapper.idx}"
JobName(n) == <<"job_", n>>

\* the fields of the Filenames namedtuple, in declaration (= iteration) order
FilenameFields == <<"exec_filename", "log_filename", "out_filename", "err_filename">>

Suffix(field) ==
    CASE field = "exec_filename" -> ".sh"
      [] field = "log_filename" -> ".log"
      [] field = "out_filename" -> ".out"
      [] field = "err_filename" -> ".err"

\* f"{self.job_dir}/{self.name}.sh" and so on: one path per field
MakeFilenames(name) ==
    [f \in {FilenameFields[i] : i \in 1..Len(FilenameFields)} |-> <<name, Suffix(f)>>]

\* the job directory in the filesystem, keyed like the files in it
DirEntry == <<<<"job_dir", 0>>, "/">>

AllPaths ==
    {<<JobName(n), Suffix(FilenameFields[i])>> : n \in 0..(MaxIdx - 1), i \in 1..Len(FilenameFields)}
        \cup {DirEntry}

\* ----------------------------------------------------------------- kwargs
\* **kwargs as a set of <<key, value>> pairs
NoKwargs == {}

\* kwargs.get(key, default)
KwGet(kw, key, default) ==
    IF \E p \in kw : p[1] = key
    THEN (CHOOSE p \in kw : p[1] = key)[2]
    ELSE default

\* ------------------------------------------------------------------- jobs
Cmds == {"cmd_a", "cmd_b"}

\* paths are sequences of components; os.path.abspath of a relative path
\* puts the working directory in front
Abspath(p) == <<"/cwd">> \o p

\* os.path.basename(path.rstrip("/")): the last component
Basename(p) == p[Len(p)]

\* the input files that exist on the submit node
ExistingInputs == {<<"in_a">>, <<"data", "in_b">>}

\* os.path.exists(input_file), of a resolved input file
PathExists(ap) == \E p \in ExistingInputs : ap = Abspath(p)

\* the job_dir argument of the constructions
JobDirArg == <<"out", "condor">>

\* f"http://proxy.chtc.wisc.edu/SQUID/chtc/python3{sys.version_info.minor}.tar.gz"
RuntimeArchive == <<"http://proxy.chtc.wisc.edu/SQUID/chtc", "python3{minor}.tar.gz">>

\* ",".join(paths): the paths with a "," between neighbours; "" is <<>>
Join(paths) ==
    [k \in 1..(2 * Len(paths) - 1) |-> IF k % 2 = 1 THEN paths[(k + 1) \div 2] ELSE ","]

\* "(ExitBySignal == True) || (ExitCode != 0)"
OnExitHold ==
    [op |-> "||",
     left |-> <<"ExitBySignal", "==", "True">>,
     right |-> <<"ExitCode", "!=", 0>>]

\* "(NumJobStarts < 5) && ((CurrentTime - EnteredCurrentStatus) > 600)"
PeriodicRelease ==
    [op |-> "&&",
     left |-> <<"NumJobStarts", "<", MaxJobStarts>>,
     right |-> <<"CurrentTime - EnteredCurrentStatus", ">", ReleaseAfter>>]

\* faulty variant: the counter is not advanced
AssignNameNoIncrement(i) == [name |-> JobName(i), idx |-> i]

\* self.name = f"job_{CondorJobWrapper.idx}"; CondorJobWrapper.idx += 1
AssignName(i) == [name |-> JobName(i), idx |-> i + 1]

\* the keyword arguments of a construction
DefaultMemory == "1GB"
DefaultDisk == "4GB"
DefaultPackage == "git+https://github.com/cloudbopper/anamod"

\* the attributes __init__ sets before it calls create_job; input_files are
\* the resolved input files
NewJob(name, cmd, input_files, job_dir, kw) ==
    [name |-> name,
     cmd |-> cmd,
     input_files |-> Append(input_files, RuntimeArchive),
     job_dir |-> Abspath(job_dir),
     job_dir_remote |-> Basename(Abspath(job_dir)),
     filenames |-> MakeFilenames(name),
     shared_filesystem |-> KwGet(kw, "shared_filesystem", FALSE)]

\* if not os.path.exists(self.job_dir): os.makedirs(self.job_dir)
makedirs(fs) == [fs EXCEPT ![DirEntry] = "present"]

\* create_executable(package): the script is written to exec_filename
create_executable(fs, self, package) ==
    [fs EXCEPT ![self.filenames.exec_filename] = "present"]

\* faulty variant: the transfer attributes are filled in both modes
SubmitAlwaysTransfer(self, memory, disk) ==
    [initialdir |-> self.job_dir,
     executable |-> self.filenames.exec_filename,
     output |-> self.filenames.out_filename,
     error |-> self.filenames.err_filename,
     log |-> self.filenames.log_filename,
     request_memory |-> memory,
     request_disk |-> disk,
     universe |-> "vanilla",
     should_transfer_files |-> "YES",
     transfer_input_files |-> Join(self.input_files),
     transfer_output_files |-> <<self.job_dir_remote, "/">>,
     on_exit_hold |-> OnExitHold,
     periodic_release |-> PeriodicRelease]

\* faulty variant: no retries are asked for when the caller sets the memory
SubmitRetryByDefaultOnly(self, memory, disk) ==
    [initialdir |-> self.job_dir,
     executable |-> self.filenames.exec_filename,
     output |-> self.filenames.out_filename,
     error |-> self.filenames.err_filename,
     log |-> self.filenames.log_filename,
     request_memory |-> memory,
     request_disk |-> disk,
     universe |-> "vanilla",
     should_transfer_files |-> IF self.shared_filesystem THEN "NO" ELSE "YES",
     transfer_input_files |-> IF self.shared_filesystem THEN <<>> ELSE Join(self.input_files),
     transfer_output_files |-> IF self.shared_filesystem THEN <<>>
                               ELSE <<self.job_dir_remote, "/">>,
     on_exit_hold |-> OnExitHold,
     periodic_release |-> IF memory = DefaultMemory THEN PeriodicRelease
                          ELSE [PeriodicRelease EXCEPT !.left = <<"NumJobStarts", "<", 0>>]]

\* htcondor.Submit({...}): the submission descriptor
Submit(self, memory, disk) ==
    [initialdir |-> self.job_dir,
     executable |-> self.filenames.exec_filename,
     output |-> self.filenames.out_filename,
     error |-> self.filenames.err_filename,
     log |-> self.filenames.log_filename,
     request_memory |-> memory,
     request_disk |-> disk,
     universe |-> "vanilla",
     should_transfer_files |-> IF self.shared_filesystem THEN "NO" ELSE "YES",
     transfer_input_files |-> IF self.shared_filesystem THEN <<>> ELSE Join(self.input_files),
     transfer_output_files |-> IF self.shared_filesystem THEN <<>>
                               ELSE <<self.job_dir_remote, "/">>,
     on_exit_hold |-> OnExitHold,
     periodic_release |-> PeriodicRelease]

\* create_job(memory, disk, package): the script is written, then the
\* descriptor is built
create_job(fs, self, memory, disk, package) ==
    [fsys |-> create_executable(fs, self, package),
     job |-> Submit(self, memory, disk)]

\* a job object with all its attributes
WithJob(self, descriptor) ==
    [name |-> self.name,
     cmd |-> self.cmd,
     input_files |-> self.input_files,
     job_dir |-> self.job_dir,
     job_dir_remote |-> self.job_dir_remote,
     filenames |-> self.filenames,
     shared_filesystem |-> self.shared_filesystem,
     job |-> descriptor,
     cluster_id |-> Sentinel]

\* faulty variant: the input files are checked after the job is created
constructCheckLast(fs, i, cmd, input_files, job_dir, kw) ==
    LET a == AssignName(i)
        resolved == [k \in DOMAIN input_files |-> Abspath(input_files[k])]
        self == NewJob(a.name, cmd, resolved, job_dir, kw)
        c == create_job(makedirs(fs), self,
                        KwGet(kw, "memory", DefaultMemory),
                        KwGet(kw, "disk", DefaultDisk),
                        KwGet(kw, "package", DefaultPackage))
    IN  IF \E k \in DOMAIN resolved : ~PathExists(resolved[k])
        THEN [idx |-> a.idx, name |-> a.name, exc |-> "AssertionError",
              fsys |-> c.fsys, jobs |-> <<>>]
        ELSE [idx |-> a.idx, name |-> a.name, exc |-> "none",
              fsys |-> c.fsys, jobs |-> <<WithJob(self, c.job)>>]

\* CondorJobWrapper.__init__(self, cmd, input_files, job_dir, **kw), with the
\* class counter at i: the counter afterwards, the name taken, the exception
\* raised, the filesystem afterwards and the job constructed (none if an
\* input file is missing: the assertion fails before anything is created)
construct(fs, i, cmd, input_files, job_dir, kw) ==
    LET a == AssignName(i)
        resolved == [k \in DOMAIN input_files |-> Abspath(input_files[k])]
    IN  IF \E k \in DOMAIN resolved : ~PathExists(resolved[k])
        THEN [idx |-> a.idx, name |-> a.name, exc |-> "AssertionError",
              fsys |-> fs, jobs |-> <<>>]
        ELSE LET self == NewJob(a.name, cmd, resolved, job_dir, kw)
                 c == create_job(makedirs(fs), self,
                                 KwGet(kw, "memory", DefaultMemory),
                                 KwGet(kw, "disk", DefaultDisk),
                                 KwGet(kw, "package", DefaultPackage))
             IN  [idx |-> a.idx, name |-> a.name, exc |-> "none",
                  fsys |-> c.fsys, jobs |-> <<WithJob(self, c.job)>>]

\* **kwargs with the shared_filesystem flag only
SharedKwargs(shared) == {<<"shared_filesystem", shared>>}

\* the job a construction with counter i and no input files leaves
Built(i, cmd, shared) ==
    construct([p \in AllPaths |-> "absent"], i, cmd, <<>>, JobDirArg, SharedKwargs(shared)).jobs[1]

NoError == [kind |-> "none", cmd |-> "", path |-> <<>>]

\* ---------------------------------------------------------------- cleanup
FileStates == {"absent", "present", "locked"}

\* os.remove(filename): the file is gone afterwards, or an exception is raised
\* (FileNotFoundError for a missing file, PermissionError for one that may
\* not be removed) and the filesystem is as before
OsRemove(fs, path) ==
    CASE fs[path] = "present" -> [fsys |-> [fs EXCEPT ![path] = "absent"], exc |-> "none"]
      [] fs[path] = "absent" -> [fsys |-> fs, exc |-> "FileNotFoundError"]
      [] fs[path] = "locked" -> [fsys |-> fs, exc |-> "PermissionError"]

\* FileNotFoundError and PermissionError are subclasses of OSError
IsOSError(exc) == exc \in {"OSError", "FileNotFoundError", "PermissionError"}

\* faulty variant: contextlib.suppress(FileNotFoundError) in place of suppress(OSError)
SuppressMissingOnly(exc) == IF exc = "FileNotFoundError" THEN "none" ELSE exc

\* contextlib.suppress(OSError): the exception that leaves the with block
SuppressOSError(exc) == IF IsOSError(exc) THEN "none" ELSE exc

\* for filename in self.filenames: os.remove(filename)
\* the loop from field i on; the first exception ends it
RECURSIVE RemoveLoop(_, _, _)
RemoveLoop(fs, filenames, i) ==
    IF i > Len(FilenameFields)
    THEN [fsys |-> fs, exc |-> "none"]
    ELSE LET r == OsRemove(fs, filenames[FilenameFields[i]])
         IN  IF r.exc # "none" THEN r ELSE RemoveLoop(r.fsys, filenames, i + 1)

\* CondorJobWrapper.cleanup(self, **kwargs)
cleanup(fs, job, kw) ==
    IF ~KwGet(kw, "cleanup", FALSE)
    THEN [fsys |-> fs, exc |-> "none"]
    ELSE LET r == RemoveLoop(fs, job.filenames, 1)
         IN  [fsys |-> r.fsys, exc |-> SuppressOSError(r.exc)]

\* the keyword arguments a caller may give cleanup()
KwargsChoices == {NoKwargs, {<<"cleanup", TRUE>>}, {<<"cleanup", FALSE>>}}

\* the keyword arguments a caller gives monitor(): cleanup requested or not
MonitorKwargsChoices == {NoKwargs, {<<"cleanup", TRUE>>}}

\* the states of a job's four files
JobFiles(fs, job) == [f \in DOMAIN job.filenames |-> fs[job.filenames[f]]]

MonitorIdle ==
    /\ pc = "caller"
    /\ mon_kwargs = NoKwargs
    /\ cursor = <<>>
    /\ job_finished = <<>>
    /\ num_unfinished_jobs = 0
    /\ mi = 0
    /\ err = NoError
    /\ removals = <<>>
    /\ backed_off = FALSE
    /\ fs_wait = 0
    /\ transitioned = FALSE
    /\ cleanups = <<>>

\* SpecCleanup: one constructed job whose four files are in any state
InitCleanup ==
    /\ idx = 1
    /\ names = <<JobName(0)>>
    /\ \E c \in Cmds, sh \in BOOLEAN : jobs = <<Built(0, c, sh)>>
    /\ \E st \in [{Suffix(FilenameFields[i]) : i \in 1..Len(FilenameFields)} -> FileStates] :
          fsys = [p \in AllPaths |-> IF p[1] = JobName(0) THEN st[p[2]]
                                ELSE IF p[2] = "/" THEN "present" ELSE "absent"]
    /\ log = <<<<>>>>
    /\ next_cluster = 1
    /\ appended = 0
    /\ MonitorIdle
    /\ calls = <<>>

\* the caller invokes jobs[1].cleanup(**kw)
CallCleanup(kw) ==
    /\ pc = "caller"
    /\ LET r == cleanup(fsys, jobs[1], kw)
           c == [kw |-> kw, before |-> JobFiles(fsys, jobs[1]),
                 after |-> JobFiles(r.fsys, jobs[1]), exc |-> r.exc]
       IN  /\ fsys' = r.fsys
           /\ calls' = IF Len(calls) = 2 THEN <<calls[2], c>> ELSE Append(calls, c)
    /\ UNCHANGED <<idx, names, jobs, log, next_cluster, appended, monvars>>

\* something else (the scheduler, the user) creates, removes or locks a file
EnvSetFile(path, st) ==
    /\ path[1] = jobs[1].name
    /\ fsys[path] # st
    /\ fsys' = [fsys EXCEPT ![path] = st]
    /\ calls' = <<>>
    /\ UNCHANGED <<idx, names, jobs, log, next_cluster, appended, monvars>>

NextCleanup ==
    \/ \E kw \in KwargsChoices : CallCleanup(kw)
    \/ \E path \in AllPaths, st \in FileStates : EnvSetFile(path, st)

SpecCleanup == InitCleanup /\ [][NextCleanup]_vars

\* ------------------------------------------------------------- event logs
\* the events of a job's log that monitor tells apart: JobEventType and, for
\* JOB_TERMINATED, the fields TerminatedNormally and ReturnValue
Event(type, normal, ret) == [type |-> type, TerminatedNormally |-> normal, ReturnValue |-> ret]

SubmitEvent == Event("SUBMIT", FALSE, 0)
TerminatedOk == Event("JOB_TERMINATED", TRUE, 0)
TerminatedNonzero == Event("JOB_TERMINATED", TRUE, 1)
TerminatedAbnormally == Event("JOB_TERMINATED", FALSE, 0)
Aborted == Event("JOB_ABORTED", FALSE, 0)

\* an event as it stands in a log: with the cluster id of the submission it
\* belongs to
Stamp(e, cluster) ==
    [type |-> e.type, TerminatedNormally |-> e.TerminatedNormally,
     ReturnValue |-> e.ReturnValue, Cluster |-> cluster]

\* the cluster id in the events an earlier process left in a log
EarlierCluster == 0

\* what the scheduler may append to a submitted job's log
SchedulerEvents == {TerminatedOk, TerminatedNonzero, TerminatedAbnormally, Aborted}

\* ---------------------------------------------------------------- batches
BatchCmd(i) == IF i % 2 = 1 THEN "cmd_a" ELSE "cmd_b"

\* Spec: a batch of n jobs constructed in a fresh process, all in the same
\* filesystem mode. The job directory may hold the log, stdout and stderr an
\* earlier process left under the name of the first job (names start again at
\* job_0 in every process).
Init ==
    \E n \in 0..MaxJobs, shared \in BOOLEAN, stale \in {{}, {1}} :
        /\ stale \subseteq 1..n
        /\ idx = n
        /\ names = [i \in 1..n |-> JobName(i - 1)]
        /\ jobs = [i \in 1..n |-> Built(i - 1, BatchCmd(i), shared)]
        /\ fsys = [p \in AllPaths |->
                     IF \/ p[2] = "/"
                        \/ \E i \in 1..n : /\ p[1] = JobName(i - 1)
                                           /\ (p[2] = ".sh" \/ i \in stale)
                     THEN "present" ELSE "absent"]
        /\ log = [i \in 1..n |-> IF i \in stale
                                 THEN <<Stamp(SubmitEvent, EarlierCluster),
                                        Stamp(TerminatedOk, EarlierCluster)>>
                                 ELSE <<>>]
        /\ next_cluster = 1
        /\ appended = 0
        /\ MonitorIdle
        /\ calls = <<>>

\* ------------------------------------------------------------------ run()
\* faulty variant: the log is left as it is
RemoveLogSkipped(fs, job) == [fsys |-> fs, exc |-> "none"]

\* with contextlib.suppress(OSError): os.remove(self.filenames.log_filename)
RemoveLog(fs, job) ==
    LET r == OsRemove(fs, job.filenames.log_filename)
    IN  [fsys |-> r.fsys, exc |-> SuppressOSError(r.exc)]

\* faulty variant: an id is stored whether or not the transaction commits
queueAlwaysAssigns(cluster_id, submitted, next) ==
    [cluster_id |-> next, exc |-> IF submitted THEN "none" ELSE "schedd"]

\* self.cluster_id = self.job.queue(txn), inside the transaction: the id the
\* job holds afterwards and the exception raised. submitted: the transaction
\* commits and the scheduler assigns the id `next`; otherwise the scheduler's
\* exception leaves the statement before anything is assigned.
queue(cluster_id, submitted, next) ==
    IF submitted
    THEN [cluster_id |-> next, exc |-> "none"]
    ELSE [cluster_id |-> cluster_id, exc |-> "schedd"]

\* the exception of a run() that reached the caller
RunError(exc) == [kind |-> exc, cmd |-> "", path |-> <<>>]

\* job.run(): the stale log is removed, then the submission is attempted.
\* The caller submits the jobs of the batch in list order, each once.
\* On a commit the scheduler starts the job's log with the submit event.
Run(j, submitted) ==
    /\ pc = "caller"
    /\ j \in DOMAIN jobs
    /\ jobs[j].cluster_id = Sentinel
    /\ \A i \in 1..(j - 1) : jobs[i].cluster_id # Sentinel
    /\ LET r == RemoveLog(fsys, jobs[j])
           log1 == IF r.fsys[jobs[j].filenames.log_filename] = "absent" THEN <<>> ELSE log[j]
           q == queue(jobs[j].cluster_id, submitted, next_cluster)
       IN  IF r.exc # "none"
           THEN /\ err' = RunError(r.exc)
                /\ fsys' = r.fsys
                /\ UNCHANGED <<jobs, next_cluster, log>>
           ELSE /\ jobs' = [jobs EXCEPT ![j].cluster_id = q.cluster_id]
                /\ err' = RunError(q.exc)
                /\ IF submitted
                   THEN /\ next_cluster' = next_cluster + 1
                        /\ log' = [log EXCEPT ![j] = Append(log1, Stamp(SubmitEvent, next_cluster))]
                        /\ fsys' = [r.fsys EXCEPT ![jobs[j].filenames.log_filename] = "present"]
                   ELSE /\ log' = [log EXCEPT ![j] = log1]
                        /\ fsys' = r.fsys
                        /\ UNCHANGED next_cluster
    /\ UNCHANGED <<idx, names, appended, pc, looplocals, histvars, calls>>

\* ----------------------------------------------------------- construction
\* SpecBuild: a fresh process; nothing constructed, no file in the job
\* directory, which may or may not exist yet
InitBuild ==
    /\ idx = 0
    /\ names = <<>>
    /\ jobs = <<>>
    /\ \E d \in {"absent", "present"} :
          fsys = [p \in AllPaths |-> IF p = DirEntry THEN d ELSE "absent"]
    /\ log = <<>>
    /\ next_cluster = 1
    /\ appended = 0
    /\ MonitorIdle
    /\ calls = <<>>

\* the exception of a construction that reached the caller
ConstructError(exc) == [kind |-> exc, cmd |-> "", path |-> <<>>]

\* CondorJobWrapper(cmd, input_files, JobDirArg, **kw) is called. The name is
\* taken and the counter advanced before the inputs are checked; a failed
\* assertion reaches the caller, who is left without a job.
Construct(cmd, input_files, kw) ==
    /\ pc = "caller"
    /\ LET c == construct(fsys, idx, cmd, input_files, JobDirArg, kw)
       IN  /\ idx' = c.idx
           /\ names' = Append(names, c.name)
           /\ jobs' = jobs \o c.jobs
           /\ fsys' = c.fsys
           /\ log' = log \o [k \in DOMAIN c.jobs |-> <<>>]
           /\ err' = ConstructError(c.exc)
    /\ UNCHANGED <<next_cluster, appended, pc, looplocals, histvars, calls>>

\* the input_files arguments of the constructions: lists of files that
\* exist, and lists with one or two files that do not
InputChoices ==
    {<<>>, <<<<"in_a">>, <<"data", "in_b">>>>,
     <<<<"in_a">>, <<"data", "gone_b">>>>,
     <<<<"gone_a">>, <<"data", "gone_b">>>>}

BuildKwargs == {NoKwargs, SharedKwargs(TRUE)}

NextBuild ==
    \/ \E cmd \in Cmds, input_files \in InputChoices, kw \in BuildKwargs :
          idx < MaxIdx /\ Construct(cmd, input_files, kw)
    \/ \E j \in 1..MaxIdx, submitted \in BOOLEAN : Run(j, submitted)

SpecBuild == InitBuild /\ [][NextBuild]_vars

\* SpecDescriptor: constructions with every combination of keyword arguments
\* each keyword argument is left out or given a value other than its default
DescriptorKwargs ==
    {s \cup m \cup d \cup p :
        s \in {NoKwargs, SharedKwargs(TRUE)},
        m \in {NoKwargs, {<<"memory", "16GB">>}},
        d \in {NoKwargs, {<<"disk", "100GB">>}},
        p \in {NoKwargs, {<<"package", "anamod==0.1">>}}}

NextDescriptor ==
    \E cmd \in Cmds, input_files \in InputChoices, kw \in DescriptorKwargs :
        idx < MaxDescribed /\ Construct(cmd, input_files, kw)

SpecDescriptor == InitBuild /\ [][NextDescriptor]_vars

\* the scheduler appends an event to a submitted job's log; by then the job's
\* stdout and stderr files exist on the submit node. The logs are followed
\* until monitor has returned or raised.
AppendEvent(j, e) ==
    /\ j \in DOMAIN jobs
    /\ pc \notin {"returned", "raised"}
    /\ jobs[j].cluster_id # Sentinel
    /\ appended < MaxEvents
    /\ appended' = appended + 1
    /\ log' = [log EXCEPT ![j] = Append(@, Stamp(e, jobs[j].cluster_id))]
    /\ fsys' = [fsys EXCEPT ![jobs[j].filenames.log_filename] = "present",
                            ![jobs[j].filenames.out_filename] = "present",
                            ![jobs[j].filenames.err_filename] = "present"]
    /\ UNCHANGED <<idx, names, jobs, next_cluster, monvars, calls>>

\* -------------------------------------------------------------- monitor()
\* faulty variant: JOB_ABORTED is passed over like any other event
ClassifyIgnoringAborted(e) ==
    IF e.type = "JOB_TERMINATED"
    THEN IF e.TerminatedNormally
         THEN IF e.ReturnValue # 0 THEN "nonzero" ELSE "success"
         ELSE "abnormal"
    ELSE "other"

\* faulty variant: the return value of a normal termination is not looked at
ClassifyIgnoringReturnValue(e) ==
    IF e.type = "JOB_TERMINATED"
    THEN IF e.TerminatedNormally THEN "success" ELSE "abnormal"
    ELSE IF e.type = "JOB_ABORTED" THEN "aborted" ELSE "other"

\* the branch monitor takes on an event read from a job's log
Classify(e) ==
    IF e.type = "JOB_TERMINATED"
    THEN IF e.TerminatedNormally
         THEN IF e.ReturnValue # 0 THEN "nonzero" ELSE "success"
         ELSE "abnormal"
    ELSE IF e.type = "JOB_ABORTED" THEN "aborted" ELSE "other"

\* faulty variant: the message leaves the command out
JobErrorNoCmd(kind, job) ==
    [kind |-> kind,
     cmd |-> "",
     path |-> IF kind = "nonzero" THEN job.filenames.err_filename
              ELSE job.filenames.log_filename]

\* faulty variant: every message points at the error file
JobErrorAlwaysErrFile(kind, job) ==
    [kind |-> kind, cmd |-> job.cmd, path |-> job.filenames.err_filename]

\* the RuntimeError monitor raises for job: the command and the file its
\* message points at
JobError(kind, job) ==
    [kind |-> kind,
     cmd |-> job.cmd,
     path |-> IF kind = "nonzero" THEN job.filenames.err_filename
              ELSE job.filenames.log_filename]

\* an exception of job.cleanup() that leaves monitor
CleanupError(exc) == [kind |-> exc, cmd |-> "", path |-> <<>>]

\* the exception of a scheduler call that failed
ScheddError == [kind |-> "schedd", cmd |-> "", path |-> <<>>]

\* the reason string monitor hands to remove_jobs
Reason(kind, job) == <<"Job", job.name, kind>>

\* remove_jobs(jobs, reason): one schedd.act(JobAction.Remove, ClusterId==id)
\* per job of the list, in order. fail_at = 0: every call returns; otherwise the
\* call for job fail_at raises, which ends the loop and leaves remove_jobs.
remove_jobs(js, reason, fail_at) ==
    [acts |-> [i \in 1..(IF fail_at = 0 THEN Len(js) ELSE fail_at) |->
                 [constraint |-> js[i].cluster_id, reason |-> reason, ok |-> i # fail_at]],
     exc |-> IF fail_at = 0 THEN "none" ELSE "schedd"]

\* faulty variant: every branch that ends the events loop calls remove_jobs
RemovalCalledAlways(kind) == TRUE

\* the branches of the events loop that call remove_jobs: the abnormal
\* termination and the abort
RemovalCalled(kind) == kind \in {"abnormal", "aborted"}

\* the scheduler calls of the branch taken for job i
BranchRemoval(js, i, kind, fail_at) ==
    IF RemovalCalled(kind)
    THEN remove_jobs(js, Reason(kind, js[i]), fail_at)
    ELSE [acts |-> <<>>, exc |-> "none"]

\* faulty variant: num_unfinished_jobs is not decremented
MarkFinishedNoDecrement(fin, num, i) ==
    [job_finished |-> [fin EXCEPT ![i] = TRUE], num_unfinished_jobs |-> num]

\* job_finished[idx] = True; num_unfinished_jobs -= 1
MarkFinished(fin, num, i) ==
    [job_finished |-> [fin EXCEPT ![i] = TRUE], num_unfinished_jobs |-> num - 1]

\* faulty variant: the for loop visits every job, finished or not
NextUnfinishedIgnoresFlags(fin, from) ==
    IF from < Len(fin) THEN from + 1 ELSE 0

\* filter(lambda idx: not job_finished[idx], range(len(jobs))): the next index
\* after `from` the for loop visits, 0 when the loop is over
NextUnfinished(fin, from) ==
    IF \E i \in DOMAIN fin : i > from /\ ~fin[i]
    THEN CHOOSE i \in DOMAIN fin :
            /\ i > from /\ ~fin[i]
            /\ \A k \in DOMAIN fin : (k > from /\ ~fin[k]) => i <= k
    ELSE 0

\* where monitor is once the events of job `from` are drained (or the job has
\* succeeded and the loop over its events was left by break): at the next
\* unfinished job, or, the round being over, in time.sleep(30)
AfterJob(fin, from) ==
    LET nx == NextUnfinished(fin, from)
    IN  IF nx # 0 THEN [pc |-> "poll", mi |-> nx] ELSE [pc |-> "sleep", mi |-> 0]

\* faulty variant: the loop is left while one job is unfinished
WhileTestStopsEarly(js, fin, num) ==
    IF num > 1
    THEN AfterJob(fin, 0)
    ELSE IF Len(js) > 0 /\ js[1].shared_filesystem
         THEN [pc |-> "fs_sleep", mi |-> 0]
         ELSE [pc |-> "returned", mi |-> 0]

\* the test of the while loop and what follows the loop: another round while
\* num_unfinished_jobs > 0; otherwise the wait for the shared filesystem if
\* jobs[0] is in shared mode, and the return
WhileTest(js, fin, num) ==
    IF num > 0
    THEN AfterJob(fin, 0)
    ELSE IF Len(js) > 0 /\ js[1].shared_filesystem
         THEN [pc |-> "fs_sleep", mi |-> 0]
         ELSE [pc |-> "returned", mi |-> 0]

\* faulty variant: job.cleanup() is called in every branch
CleanupCalledAlways(kind) == TRUE

\* whether the branch taken on an event of this kind calls job.cleanup()
CleanupCalled(kind) == kind = "success"

\* the filesystem and the count of cleanup calls after the branch of `kind`
\* has or has not called job.cleanup() for job i; an exception of cleanup
\* leaves monitor
BranchCleanup(fs, counts, js, i, kind, kw) ==
    IF CleanupCalled(kind)
    THEN LET c == cleanup(fs, js[i], kw)
         IN  [fsys |-> c.fsys, cleanups |-> [counts EXCEPT ![i] = @ + 1], exc |-> c.exc]
    ELSE [fsys |-> fs, cleanups |-> counts, exc |-> "none"]

\* CondorJobWrapper.monitor(jobs, **kw) is called on the submitted batch: one
\* event cursor per job, at the start of its log
MonitorStart(kw) ==
    /\ pc = "caller"
    /\ \A j \in DOMAIN jobs : jobs[j].cluster_id # Sentinel
    /\ mon_kwargs' = kw
    /\ cursor' = [j \in DOMAIN jobs |-> 0]
    /\ job_finished' = [j \in DOMAIN jobs |-> FALSE]
    /\ num_unfinished_jobs' = Len(jobs)
    /\ LET w == WhileTest(jobs, [j \in DOMAIN jobs |-> FALSE], Len(jobs))
       IN  pc' = w.pc /\ mi' = w.mi
    /\ backed_off' = FALSE
    /\ fs_wait' = 0
    /\ transitioned' = FALSE
    /\ cleanups' = [j \in DOMAIN jobs |-> 0]
    /\ UNCHANGED <<idx, names, jobs, fsys, log, next_cluster, appended, err, removals, calls>>

\* faulty variant: the newest event of the log decides, the events before it
\* are skipped
DrainLast(lg, c) ==
    IF c = Len(lg)
    THEN [cursor |-> c, kind |-> "none"]
    ELSE [cursor |-> Len(lg), kind |-> Classify(lg[Len(lg)])]

\* for event in events[idx]: the events of a log from cursor c on are taken in
\* order; events that are neither JOB_TERMINATED nor JOB_ABORTED change
\* nothing; the loop ends at the first event that is (kind: its branch) or when
\* no event is left (kind "none"). The result: the cursor and the kind.
RECURSIVE Drain(_, _)
Drain(lg, c) ==
    IF c = Len(lg)
    THEN [cursor |-> c, kind |-> "none"]
    ELSE LET k == Classify(lg[c + 1])
         IN  IF k = "other" THEN Drain(lg, c + 1) ELSE [cursor |-> c + 1, kind |-> k]

\* monitor is at job mi and the loop over its new events ends with this kind
Polling(kind) ==
    /\ pc = "poll"
    /\ Drain(log[mi], cursor[mi]).kind = kind

\* the new events of job mi are drained without a terminated or aborted event
\* among them: on to the next unfinished job, or to the sleep
ReadNone ==
    /\ Polling("none")
    /\ cursor' = [cursor EXCEPT ![mi] = Drain(log[mi], @).cursor]
    /\ LET a == AfterJob(job_finished, mi)
       IN  pc' = a.pc /\ mi' = a.mi
    /\ UNCHANGED <<idx, names, jobs, fsys, log, next_cluster, appended, mon_kwargs,
                   job_finished, num_unfinished_jobs, err, removals, histvars, calls>>

\* the keyword arguments of the call job.cleanup() in monitor
MonitorCleanupKwargs(kw) == NoKwargs

\* terminated normally with return value 0: the job is finished, job.cleanup()
\* is called, break
ReadSuccess ==
    /\ Polling("success")
    /\ cursor' = [cursor EXCEPT ![mi] = Drain(log[mi], @).cursor]
    /\ LET m == MarkFinished(job_finished, num_unfinished_jobs, mi)
           c == BranchCleanup(fsys, cleanups, jobs, mi, "success",
                              MonitorCleanupKwargs(mon_kwargs))
           r == BranchRemoval(jobs, mi, "success", 0)
           a == AfterJob(m.job_finished, mi)
       IN  /\ job_finished' = m.job_finished
           /\ num_unfinished_jobs' = m.num_unfinished_jobs
           /\ fsys' = c.fsys
           /\ cleanups' = c.cleanups
           /\ removals' = removals \o r.acts
           /\ IF c.exc = "none"
              THEN pc' = a.pc /\ mi' = a.mi /\ err' = err
              ELSE pc' = "raised" /\ mi' = mi /\ err' = CleanupError(c.exc)
    /\ transitioned' = TRUE
    /\ backed_off' = FALSE
    /\ UNCHANGED <<idx, names, jobs, log, next_cluster, appended, mon_kwargs,
                   fs_wait, calls>>

\* terminated normally with a nonzero return value: RuntimeError
ReadNonzero ==
    /\ Polling("nonzero")
    /\ cursor' = [cursor EXCEPT ![mi] = Drain(log[mi], @).cursor]
    /\ LET c == BranchCleanup(fsys, cleanups, jobs, mi, "nonzero",
                              MonitorCleanupKwargs(mon_kwargs))
           r == BranchRemoval(jobs, mi, "nonzero", 0)
       IN  /\ fsys' = c.fsys
           /\ cleanups' = c.cleanups
           /\ removals' = removals \o r.acts
           /\ err' = IF c.exc = "none" THEN JobError("nonzero", jobs[mi])
                     ELSE CleanupError(c.exc)
    /\ pc' = "raised"
    /\ UNCHANGED <<idx, names, jobs, log, next_cluster, appended, mon_kwargs,
                   job_finished, num_unfinished_jobs, mi,
                   backed_off, fs_wait, transitioned, calls>>

\* remove_jobs(jobs, reason), then raise RuntimeError; an exception of
\* remove_jobs leaves monitor in place of the RuntimeError
RemoveAndRaise(kind, fail_at) ==
    /\ cursor' = [cursor EXCEPT ![mi] = Drain(log[mi], @).cursor]
    /\ LET c == BranchCleanup(fsys, cleanups, jobs, mi, kind,
                              MonitorCleanupKwargs(mon_kwargs))
           r == BranchRemoval(jobs, mi, kind, fail_at)
       IN  /\ fsys' = c.fsys
           /\ cleanups' = c.cleanups
           /\ removals' = removals \o r.acts
           /\ err' = IF c.exc # "none" THEN CleanupError(c.exc)
                     ELSE IF r.exc = "none" THEN JobError(kind, jobs[mi]) ELSE ScheddError
    /\ pc' = "raised"
    /\ UNCHANGED <<idx, names, jobs, log, next_cluster, appended, mon_kwargs,
                   job_finished, num_unfinished_jobs, mi,
                   backed_off, fs_wait, transitioned, calls>>

\* JOB_TERMINATED that is not normal
ReadAbnormal(fail_at) ==
    /\ Polling("abnormal")
    /\ RemoveAndRaise("abnormal", fail_at)

\* JOB_ABORTED
ReadAborted(fail_at) ==
    /\ Polling("aborted")
    /\ RemoveAndRaise("aborted", fail_at)

\* time.sleep(30) at the end of a round is over: the while test, and the next
\* round if the loop goes on
Sleep ==
    /\ pc = "sleep"
    /\ LET w == WhileTest(jobs, job_finished, num_unfinished_jobs)
       IN  pc' = w.pc /\ mi' = w.mi
    /\ backed_off' = TRUE
    /\ transitioned' = FALSE
    /\ UNCHANGED <<idx, names, jobs, fsys, log, next_cluster, appended, mon_kwargs,
                   cursor, job_finished, num_unfinished_jobs, err, removals,
                   fs_wait, cleanups, calls>>

\* time.sleep(30) for the shared filesystem is over: monitor returns
FsSleep ==
    /\ pc = "fs_sleep"
    /\ pc' = "returned"
    /\ fs_wait' = fs_wait + FsInterval
    /\ UNCHANGED <<idx, names, jobs, fsys, log, next_cluster, appended, mon_kwargs,
                   cursor, job_finished, num_unfinished_jobs, mi, err, removals,
                   backed_off, transitioned, cleanups, calls>>

\* the least time monitor has slept since a job was last marked finished
\* (since it was called, if none was)
Waited == (IF backed_off THEN BackoffInterval ELSE 0) + fs_wait

\* the steps monitor takes by itself once it is called
MonitorStep ==
    \/ ReadNone
    \/ ReadSuccess
    \/ ReadNonzero
    \/ \E fail_at \in 0..Len(jobs) : ReadAbnormal(fail_at)
    \/ \E fail_at \in 0..Len(jobs) : ReadAborted(fail_at)
    \/ Sleep
    \/ FsSleep

Next ==
    \/ \E j \in 1..MaxJobs, submitted \in BOOLEAN : Run(j, submitted)
    \/ \E j \in 1..MaxJobs, e \in SchedulerEvents : AppendEvent(j, e)
    \/ \E kw \in MonitorKwargsChoices : MonitorStart(kw)
    \/ MonitorStep

Spec == Init /\ [][Next]_vars

\* monitor runs in the caller's single thread: once called it keeps taking
\* steps, and each time.sleep ends
FairSpec == Spec /\ WF_vars(MonitorStep)

\* ================================================================= claims
\* what an event says, read off its fields
Kind(e) ==
    CASE e.type = "JOB_TERMINATED" /\ e.TerminatedNormally /\ e.ReturnValue = 0 -> "success"
      [] e.type = "JOB_TERMINATED" /\ e.TerminatedNormally /\ e.ReturnValue # 0 -> "nonzero"
      [] e.type = "JOB_TERMINATED" /\ ~e.TerminatedNormally -> "abnormal"
      [] e.type = "JOB_ABORTED" -> "aborted"
      [] OTHER -> "other"

\* the first JOB_TERMINATED or JOB_ABORTED event of job j's log is a normal
\* termination with return value 0
SuccessFirst(j) ==
    \E k \in 1..Len(log[j]) :
        /\ Kind(log[j][k]) = "success"
        /\ \A m \in 1..(k - 1) : Kind(log[j][m]) = "other"

\* monitor has been called and every job's log decides for success
AllSucceed == pc # "caller" /\ \A j \in DOMAIN jobs : SuccessFirst(j)

\* the event monitor read last from the log of job j
LastRead(j) == log[j][cursor[j]]

\* monitor has read an event of this kind
HasRead(kind) ==
    /\ pc # "caller"
    /\ \E j \in DOMAIN jobs : cursor[j] >= 1 /\ Kind(LastRead(j)) = kind

\* the removal requests issued for job j, whether or not the call returned
Requests(j) ==
    Cardinality({i \in DOMAIN removals : removals[i].constraint = jobs[j].cluster_id})

\* every job other than the failing one that is not finished has one request
OthersRemovedOnce ==
    \A j \in DOMAIN jobs : (j # mi /\ ~job_finished[j]) => Requests(j) = 1

\* C1: once monitor is running and the first terminated/aborted event of every
\* job's log is a normal termination with return value 0, monitor does not
\* raise and eventually returns, wherever its cursors are and in whatever
\* order and rounds the events came.
C1_Theorem ==
    /\ [](AllSucceed => pc # "raised")
    /\ AllSucceed ~> (pc = "returned")

C1_Witness ==
    /\ pc = "returned"
    /\ Len(jobs) >= 2
    /\ appended >= 2
    /\ \A j \in DOMAIN jobs : SuccessFirst(j)

\* C2: when monitor has left its loop (and when it has returned), every job of
\* the batch is finished, the last event read for it is a normal termination
\* with return value 0, and no event read for any job is a nonzero or abnormal
\* termination or an abort.
C2_Theorem ==
    pc \in {"fs_sleep", "returned"} =>
        \A j \in DOMAIN jobs :
            /\ job_finished[j]
            /\ cursor[j] >= 1
            /\ Kind(LastRead(j)) = "success"
            /\ \A k \in 1..cursor[j] : Kind(log[j][k]) \in {"success", "other"}

C2_Witness ==
    /\ pc = "returned"
    /\ Len(jobs) >= 2
    /\ jobs[1].shared_filesystem
    /\ \A j \in DOMAIN jobs : job_finished[j] /\ Kind(LastRead(j)) = "success"

\* C3 (as claimed): when monitor has read a normal termination with a nonzero
\* return value, it has raised and every other unfinished job of the batch has
\* exactly one removal request.
C3_Claim == HasRead("nonzero") => (pc = "raised" /\ OthersRemovedOnce)

\* C4 (as claimed): when monitor has read an abnormal termination, it has
\* raised and every other unfinished job of the batch has exactly one removal
\* request.
C4_Claim == HasRead("abnormal") => (pc = "raised" /\ OthersRemovedOnce)

\* C5 (as claimed): when monitor has read an abort for one job after another
\* job of the batch was seen to succeed, the error raised points at the
\* aborted job's log file and every job seen to succeed has a removal request.
C5_Claim ==
    (HasRead("aborted") /\ \E j \in DOMAIN jobs : job_finished[j]) =>
        /\ pc = "raised"
        /\ err.path = jobs[mi].filenames.log_filename
        /\ \A j \in DOMAIN jobs : job_finished[j] => Requests(j) >= 1

\* C4 and C5 in the executions in which every removal call returns
RemovalsReturned == \A i \in DOMAIN removals : removals[i].ok

C4_WhenRemovalsReturn ==
    (HasRead("abnormal") /\ RemovalsReturned) =>
        (pc = "raised" /\ err.kind = "abnormal" /\ OthersRemovedOnce)

C5_WhenRemovalsReturn ==
    (HasRead("aborted") /\ RemovalsReturned /\ \E j \in DOMAIN jobs : job_finished[j]) =>
        /\ pc = "raised"
        /\ err.path = jobs[mi].filenames.log_filename
        /\ \A j \in DOMAIN jobs : job_finished[j] => Requests(j) >= 1

\* C6: a RuntimeError raised by monitor is of the kind of the event read last
\* for the job at hand; for a nonzero return value it points at that job's
\* .err file, for an abnormal termination or an abort at that job's .log file
\* and not at its .err file; the file is of no other job.
C6_Theorem ==
    (pc = "raised" /\ err.kind \in {"nonzero", "abnormal", "aborted"}) =>
        /\ Kind(LastRead(mi)) = err.kind
        /\ err.kind = "nonzero" => err.path = <<jobs[mi].name, ".err">>
        /\ err.kind \in {"abnormal", "aborted"} =>
              /\ err.path = <<jobs[mi].name, ".log">>
              /\ err.path # jobs[mi].filenames.err_filename
        /\ \A k \in DOMAIN jobs :
              k # mi => \A f \in DOMAIN jobs[k].filenames : jobs[k].filenames[f] # err.path

C6_Witness ==
    /\ pc = "raised"
    /\ err.kind = "abnormal"
    /\ mi = 2
    /\ job_finished[1]
    /\ err.path = <<JobName(1), ".log">>

\* C7 (as claimed): in the step of monitor that finds a job finished, if
\* monitor was called with cleanup=True the four files of the job are gone
\* afterwards, and if cleanup was not requested no file changes.
C7_Claim ==
    [][\A j \in DOMAIN jobs :
          (pc # "caller" /\ ~job_finished[j] /\ job_finished'[j]) =>
              IF KwGet(mon_kwargs, "cleanup", FALSE)
              THEN \A f \in DOMAIN jobs[j].filenames : fsys'[jobs[j].filenames[f]] = "absent"
              ELSE fsys' = fsys]_vars

\* C8 (as claimed): a call of cleanup with cleanup requested, on a job each of
\* whose four files exists or is missing, raises nothing and leaves none of
\* the four files.
C8_Claim ==
    \A i \in DOMAIN calls :
        (/\ KwGet(calls[i].kw, "cleanup", FALSE)
         /\ \A f \in DOMAIN calls[i].before : calls[i].before[f] \in {"present", "absent"}) =>
            /\ calls[i].exc = "none"
            /\ \A f \in DOMAIN calls[i].after : calls[i].after[f] = "absent"

\* C9: no call of cleanup raises, whatever its keyword arguments and the
\* states of the files; of two calls in a row with the same request, the
\* second leaves the job's files as the first left them.
C9_Theorem ==
    /\ \A i \in DOMAIN calls : calls[i].exc = "none"
    /\ (/\ Len(calls) = 2
        /\ KwGet(calls[1].kw, "cleanup", FALSE) = KwGet(calls[2].kw, "cleanup", FALSE)) =>
            /\ calls[2].before = calls[1].after
            /\ calls[2].after = calls[1].after

C9_Witness ==
    /\ Len(calls) = 2
    /\ KwGet(calls[1].kw, "cleanup", FALSE)
    /\ KwGet(calls[2].kw, "cleanup", FALSE)
    /\ calls[1].before # calls[1].after
    /\ \E f \in DOMAIN calls[1].after : calls[1].after[f] = "locked"
    /\ \E f \in DOMAIN calls[1].after : calls[1].after[f] = "present"

\* C10: the names assigned, failed constructions included, are job_<n> with n
\* strictly increasing in construction order; the constructed jobs carry names
\* that were assigned, in that order, and no two jobs carry the same name.
C10_Theorem ==
    /\ \A i \in DOMAIN names : names[i][1] = "job_" /\ names[i][2] \in Nat
    /\ \A i, k \in DOMAIN names : i < k => names[i][2] < names[k][2]
    /\ \A i, k \in DOMAIN jobs : i < k => jobs[i].name[2] < jobs[k].name[2]
    /\ \A i \in DOMAIN jobs : \E k \in DOMAIN names : names[k] = jobs[i].name

C10_Witness ==
    /\ Len(names) = 3
    /\ Len(jobs) = 2
    /\ jobs[1].name = JobName(0)
    /\ jobs[2].name = JobName(2)


\* the input files handed to the job: all of input_files but the runtime
\* archive, which __init__ appends last
GivenInputs(job) == SubSeq(job.input_files, 1, Len(job.input_files) - 1)

\* C11: a construction with a missing input file raises its assertion
\* error before the script is written and before a descriptor is built: the
\* step that raises leaves the filesystem and the list of jobs as they were,
\* so that every job that is ever submitted has all its input files.
C11_Theorem ==
    /\ [][(idx' # idx /\ err'.kind = "AssertionError") => (fsys' = fsys /\ jobs' = jobs)]_vars
    /\ [](\A j \in DOMAIN jobs :
            jobs[j].cluster_id # -1 =>
                \A k \in DOMAIN GivenInputs(jobs[j]) :
                    GivenInputs(jobs[j])[k] \in {<<"/cwd", "in_a">>, <<"/cwd", "data", "in_b">>})

\* a construction has just failed, in a process that has submitted a job
C11_Witness ==
    /\ err.kind = "AssertionError"
    /\ Len(names) > Len(jobs)
    /\ fsys[<<names[Len(names)], ".sh">>] = "absent"
    /\ \E j \in DOMAIN jobs : jobs[j].cluster_id # -1

\* the batch is in shared-filesystem mode: the flag of its first job
SharedBatch == Len(jobs) > 0 /\ jobs[1].shared_filesystem

C12_ExtraWait ==
    (pc = "returned" /\ Len(jobs) > 0) =>
        /\ backed_off
        /\ fs_wait = (IF SharedBatch THEN 30 ELSE 0)
        /\ Waited = (IF SharedBatch THEN 60 ELSE 30)

\* C13: every descriptor holds the job on a signal exit or a nonzero exit
\* code, releases it while NumJobStarts < 5 once more than 600 s have passed
\* since the last status change, and asks for the vanilla universe, whatever
\* keyword arguments the construction was given.
C13_Theorem ==
    \A j \in DOMAIN jobs :
        /\ jobs[j].job.on_exit_hold =
              [op |-> "||", left |-> <<"ExitBySignal", "==", "True">>,
               right |-> <<"ExitCode", "!=", 0>>]
        /\ jobs[j].job.periodic_release =
              [op |-> "&&", left |-> <<"NumJobStarts", "<", 5>>,
               right |-> <<"CurrentTime - EnteredCurrentStatus", ">", 600>>]
        /\ jobs[j].job.universe = "vanilla"

\* two jobs constructed: one shared with memory and disk set by the caller,
\* one non-shared with the defaults
C13_Witness ==
    /\ Len(jobs) = 2
    /\ jobs[1].shared_filesystem
    /\ jobs[1].job.request_memory = "16GB"
    /\ jobs[1].job.request_disk = "100GB"
    /\ ~jobs[2].shared_filesystem
    /\ jobs[2].job.request_memory = "1GB"
    /\ jobs[2].job.request_disk = "4GB"

\* the paths of a joined list: its odd positions, "," expected in between
Unjoin(s) == [k \in 1..((Len(s) + 1) \div 2) |-> s[2 * k - 1]]

\* C14: in non-shared mode should_transfer_files is YES, the input list is
\* the resolved input files followed by the runtime archive, and the output
\* target is the job directory; in shared mode should_transfer_files is NO and
\* both lists are empty.
C14_Theorem ==
    \A j \in DOMAIN jobs :
        LET d == jobs[j].job
        IN  IF jobs[j].shared_filesystem
            THEN /\ d.should_transfer_files = "NO"
                 /\ d.transfer_input_files = <<>>
                 /\ d.transfer_output_files = <<>>
            ELSE /\ d.should_transfer_files = "YES"
                 /\ Len(d.transfer_input_files) = 2 * Len(jobs[j].input_files) - 1
                 /\ \A k \in DOMAIN d.transfer_input_files :
                        k % 2 = 0 => d.transfer_input_files[k] = ","
                 /\ Unjoin(d.transfer_input_files) =
                        Append(GivenInputs(jobs[j]),
                               <<"http://proxy.chtc.wisc.edu/SQUID/chtc", "python3{minor}.tar.gz">>)
                 /\ \A k \in DOMAIN GivenInputs(jobs[j]) : GivenInputs(jobs[j])[k][1] = "/cwd"
                 /\ d.transfer_output_files = <<"condor", "/">>

\* a non-shared job with two input files next to a shared job with two
C14_Witness ==
    /\ Len(jobs) = 2
    /\ ~jobs[1].shared_filesystem
    /\ Len(jobs[1].job.transfer_input_files) = 5
    /\ jobs[2].shared_filesystem
    /\ Len(jobs[2].input_files) = 3
    /\ jobs[2].job.transfer_input_files = <<>>


FailureKinds == {"nonzero", "abnormal", "aborted"}

\* monitor has read a failure from the log of job j
ReadFailure(j) ==
    /\ pc # "caller"
    /\ cursor[j] >= 1
    /\ Kind(LastRead(j)) \in FailureKinds

\* C17: monitor makes no cleanup call for a job from whose log it has read
\* a failure, and the step that reads the failure leaves the job's four files
\* as they were.
C17_Theorem ==
    /\ [](\A j \in DOMAIN jobs : ReadFailure(j) => cleanups[j] = 0)
    /\ [][\A j \in DOMAIN jobs :
            (pc = "poll" /\ ReadFailure(j)') => JobFiles(fsys', jobs[j]) = JobFiles(fsys, jobs[j])]_vars

\* monitor, called with cleanup requested, has raised on the failure of the
\* second job after the first job succeeded; the failed job's files are there
C17_Witness ==
    /\ pc = "raised"
    /\ KwGet(mon_kwargs, "cleanup", FALSE)
    /\ Len(jobs) = 2
    /\ cleanups[1] = 1
    /\ ReadFailure(2)
    /\ \A f \in DOMAIN jobs[2].filenames : fsys[jobs[2].filenames[f]] = "present"

\* the log of job j holds a JOB_TERMINATED or JOB_ABORTED event
Decided(j) == \E k \in DOMAIN log[j] : Kind(log[j][k]) # "other"

\* monitor has returned or raised
Finished == pc \in {"returned", "raised"}

\* C18: under fair scheduling of monitor's steps, once monitor is running
\* and every job's log holds a terminated or aborted event, monitor
\* eventually returns or raises.
C18_Theorem == (pc # "caller" /\ \A j \in DOMAIN jobs : Decided(j)) ~> Finished

\* monitor has finished on a batch of two decided jobs, one of them aborted
C18_Witness ==
    /\ Finished
    /\ Len(jobs) = 2
    /\ \A j \in DOMAIN jobs : Decided(j)
    /\ \E j \in DOMAIN jobs : \E k \in DOMAIN log[j] : Kind(log[j][k]) = "aborted"

\* the log of some job holds a failure
SomeFailure == \E j \in DOMAIN jobs : \E k \in DOMAIN log[j] : Kind(log[j][k]) \in FailureKinds

\* C19: while some job's log holds no terminated or aborted event and no
\* job's log holds a failure, monitor has neither returned nor raised, however
\* many rounds and sleeps are behind it.
C19_Theorem ==
    ((\E j \in DOMAIN jobs : ~Decided(j)) /\ ~SomeFailure) => ~Finished

\* the first job has succeeded, the second has produced nothing; monitor has
\* slept since and polls the second job again, the scheduler having said all
\* it will
C19_Witness ==
    /\ pc = "poll"
    /\ mi = 2
    /\ backed_off
    /\ job_finished[1]
    /\ ~Decided(2)
    /\ cursor[2] = Len(log[2])
    /\ ~SomeFailure

\* C20: monitor is in the sleep at the end of a round only if no job was
\* marked finished in that round (a round in which a job was marked finished
\* goes on without the sleep).
C20_Claim == pc = "sleep" => ~transitioned

\* what holds instead: every round that ends without a raise ends in the
\* sleep, whether or not a job was marked finished in it
C20_SleepAfterEveryRound ==
    [][(pc = "poll" /\ pc' \notin {"poll", "raised"}) => pc' = "sleep"]_vars


\* the job a removal request names by its cluster id
Target(i) == CHOOSE j \in DOMAIN jobs : jobs[j].cluster_id = removals[i].constraint

\* C21: every removal request monitor has issued names a job other than the
\* failing one that is not marked finished.
C21_Claim ==
    \A i \in DOMAIN removals : Target(i) # mi /\ ~job_finished[Target(i)]

\* what holds instead: the requests go down the list of the batch from its
\* first job, the failing job and the finished jobs included
C21_WholeBatch ==
    \A i \in DOMAIN removals : Target(i) = i

\* a removal call has raised
RemovalFailed == \E i \in DOMAIN removals : ~removals[i].ok

\* C22: when a removal call raises, monitor still raises the error of the
\* failed job, with its command, and every other job that is not finished has
\* a removal request.
C22_Claim ==
    (pc = "raised" /\ RemovalFailed) =>
        /\ err.kind \in {"abnormal", "aborted"}
        /\ err.cmd = jobs[mi].cmd
        /\ \A j \in DOMAIN jobs : (j # mi /\ ~job_finished[j]) => Requests(j) >= 1

\* what holds instead: the exception of the removal call is what leaves
\* monitor, and the call that raised is the last one issued
C22_RemovalFailurePropagates ==
    (pc = "raised" /\ RemovalFailed) =>
        /\ err.kind = "schedd"
        /\ ~removals[Len(removals)].ok
        /\ \A i \in 1..(Len(removals) - 1) : removals[i].ok


\* the events a step consumes from the log of job j
Consumed(j) == (cursor[j] + 1)..cursor'[j]

\* C23: a cursor moves only forward, only in a poll of its own unfinished
\* job, over events that are neither terminated nor aborted up to the first
\* one that is; a poll changes the finished flag of no other job, and one
\* that reads only events of the other types changes nothing but the cursor;
\* everything before a job's cursor position is of the other types, so a job's
\* first terminated or aborted event is the one that decided; a job is
\* marked finished exactly when that event is a success.
C23_Theorem ==
    /\ [][pc # "caller" =>
            \A j \in DOMAIN jobs :
                /\ cursor'[j] >= cursor[j]
                /\ cursor'[j] # cursor[j] =>
                      /\ pc = "poll" /\ j = mi /\ ~job_finished[j]
                      /\ \A k \in Consumed(j) : k < cursor'[j] => Kind(log[j][k]) = "other"
                      /\ Kind(log[j][cursor'[j]]) = "other" => cursor'[j] = Len(log[j])
                /\ job_finished'[j] # job_finished[j] => (pc = "poll" /\ j = mi)
                /\ (cursor'[j] # cursor[j] /\ \A k \in Consumed(j) : Kind(log[j][k]) = "other") =>
                      /\ job_finished' = job_finished
                      /\ num_unfinished_jobs' = num_unfinished_jobs
                      /\ <<fsys', removals', err'>> = <<fsys, removals, err>>
                      /\ pc' # "raised"]_vars
    /\ [](pc # "caller" =>
            \A j \in DOMAIN jobs :
                /\ cursor[j] <= Len(log[j])
                /\ \A k \in 1..(cursor[j] - 1) : Kind(log[j][k]) = "other"
                /\ job_finished[j] <=> (cursor[j] >= 1 /\ Kind(LastRead(j)) = "success"))

\* the first job is finished and an event appended to its log afterwards is
\* left unread, a round later, while monitor polls the second job
C23_Witness ==
    /\ pc = "poll"
    /\ mi = 2
    /\ backed_off
    /\ job_finished[1]
    /\ Len(log[1]) > cursor[1]
    /\ cursor[2] = 1


\* the steps of monitor, from its call on
OfMonitor == <<pc, looplocals, histvars>>' # <<pc, looplocals, histvars>>

\* C24: no step of monitor submits a job or changes a job's cluster id,
\* command, descriptor or file names, nor the class counter or a job's log;
\* the removal requests only grow, and a step issues removal requests only
\* when it has read a failure event from the log of the job it polls.
C24_Theorem ==
    [][OfMonitor =>
          /\ jobs' = jobs
          /\ next_cluster' = next_cluster
          /\ log' = log
          /\ <<idx', names'>> = <<idx, names>>
          /\ Len(removals') >= Len(removals)
          /\ SubSeq(removals', 1, Len(removals)) = removals
          /\ removals' # removals =>
                /\ pc = "poll"
                /\ cursor'[mi] > cursor[mi]
                /\ Kind(log[mi][cursor'[mi]]) \in FailureKinds]_vars

\* monitor has raised on a failure of the second job, after the first one
\* succeeded, and has issued removal requests; both jobs still carry the
\* cluster ids their submissions gave them
C24_Witness ==
    /\ pc = "raised"
    /\ Len(jobs) = 2
    /\ job_finished[1]
    /\ ReadFailure(2)
    /\ removals # <<>>
    /\ jobs[1].cluster_id # Sentinel
    /\ jobs[2].cluster_id \notin {Sentinel, jobs[1].cluster_id}


\* the job name a file path of the job directory carries: the file is
\* <name><suffix>
NameIn(path) == path[1]

Unfinished == {j \in DOMAIN job_finished : ~job_finished[j]}

\* C26: from the call of monitor on, num_unfinished_jobs is the number of
\* jobs whose job_finished flag is false and lies in 0..len(jobs); cleanup has
\* been called once for every job marked finished and never for another; a
\* flag that is true stays true; the counter goes down by one exactly in the
\* steps that set one flag, and changes in no other step.
C26_Theorem ==
    /\ [](pc # "caller" =>
            /\ num_unfinished_jobs = Cardinality(Unfinished)
            /\ num_unfinished_jobs \in 0..Len(jobs)
            /\ \A j \in DOMAIN jobs : cleanups[j] = IF job_finished[j] THEN 1 ELSE 0)
    /\ [][pc # "caller" =>
            /\ \A j \in DOMAIN jobs :
                  /\ job_finished[j] => job_finished'[j]
                  /\ cleanups'[j] >= cleanups[j]
            /\ num_unfinished_jobs' =
                  num_unfinished_jobs - Cardinality(Unfinished \ Unfinished')
            /\ Cardinality(Unfinished \ Unfinished') <= 1]_vars

\* of a batch of two, the first job is marked finished and cleaned up once,
\* an event has reached its log since, and monitor, a round later, polls the
\* second job, the only one counted
C26_Witness ==
    /\ pc = "poll"
    /\ Len(jobs) = 2
    /\ mi = 2
    /\ backed_off
    /\ job_finished = <<TRUE, FALSE>>
    /\ num_unfinished_jobs = 1
    /\ cleanups = <<1, 0>>
    /\ Len(log[1]) > cursor[1]
    /\ Kind(log[1][Len(log[1])]) = "success"

====
